---- MODULE Spec2Model ----
(***************************************************************************)
(* The accessibility-score worker: the Semaphore that gates outbound       *)
(* fetches, and the scheduled ingestion run in its two handlers, the one   *)
(* of src/src/index.ts (no limiter, awaited notification) and the one of   *)
(* src/unnamed/part_000 lines 235-306 (limiter, guarded average,           *)
(* ctx.waitUntil notification).  A step of the model is what the handler   *)
(* does between two suspension points (await) of the event loop.           *)
(***************************************************************************)
EXTENDS Integers, Sequences, FiniteSets, TLC

\* ---------------------------------------------------------------- bounds
MaxRepos == 2
NTasks == 3
MaxLimit == 2

Dids == {"A", "B"}
Scores == {80, 100}
PriorScore == 60
PriorAvg == 1234

\* ------------------------------------------------------- program constants
MAX_CONCURRENCY == 6

ReservedKeys == {"lastUpdated", "pdsAccessibilityScore"}
Keys == Dids \cup ReservedKeys

\* ------------------------------------------------------------------ state
VARIABLES
  variant,     \* which scheduled handler runs: "index" or "limited"
  pc,          \* position of the scheduled handler
  cause,       \* what threw into the handler's catch block, "none" if nothing
  clock,       \* what new Date() returns
  kv,          \* ACCESSIBILITY_KV: key -> stored string, or null
  kvStart,     \* the store when the run was triggered
  listStatus,  \* outcome of the repos listing response
  repos,       \* the parsed listing: sequence of [did, active]
  rp,          \* per did: position of the fan-out callback of that repo
  partRes,     \* per did: what the participation lookup answered
  scoreData,   \* per did: the score parsed from the score response
  partCalls,   \* per did: participation fetches issued
  scoreCalls,  \* per did: score fetches issued
  written,     \* keys put by the run
  notif,       \* the Discord webhook call: none, inflight, ok, failed
  notifCalls,  \* webhook calls issued
  avgStr,      \* avgScore.toFixed(2) of the aggregate step, null before it
  scoreRes,    \* per did: what the score fetch answered
  runNo,       \* how many times the cron trigger has fired
  prev,        \* the upstream answers and the store of the run before
  req,         \* the last request to the fetch handler (the query API)
  resp,        \* its response
  limit,       \* Semaphore.limit
  active,      \* Semaphore.active
  queue,       \* Semaphore.queue: the resolvers of the waiting callers
  task,        \* per generic caller of Semaphore.run: its position
  order,       \* the generic callers in the order they invoked run()
  waited       \* the generic callers that had to queue

semVars == <<limit, active, queue>>
runVars == <<variant, pc, cause, clock, kv, kvStart, listStatus, repos, rp, partRes,
             scoreData, partCalls, scoreCalls, written, notif, notifCalls, avgStr,
             scoreRes, runNo, prev, req, resp>>
\* what no step of a run touches: the history of runs, the query API and the
\* generic callers
others == <<runNo, prev, req, resp, order, waited>>
vars == <<variant, pc, cause, clock, kv, kvStart, listStatus, repos, rp, partRes,
          scoreData, partCalls, scoreCalls, written, notif, notifCalls, avgStr,
          scoreRes, runNo, prev, req, resp, limit, active, queue, task, order, waited>>

\* ------------------------------------------------- strings of the KV store
\* A stored string is modelled by how it was produced: t is the producer,
\* n its argument.  null is what KV.get returns for an absent key.
NULL == [t |-> "null", n |-> 0]
\* Number.prototype.toString of an integer score
IntStr(n) == [t |-> "int", n |-> n]
\* Number.prototype.toFixed(2): h is the value in hundredths
Fix2Str(h) == [t |-> "fix2", n |-> h]
\* NaN.toFixed(2)
NaNStr == [t |-> "NaN", n |-> 0]
\* Date.prototype.toISOString
IsoStr(c) == [t |-> "iso", n |-> c]

\* A JavaScript number: NaN, or a value counted in hundredths.
NaN == [nan |-> TRUE, h |-> 0]
Num(h) == [nan |-> FALSE, h |-> h]

\* Number(s) for s a stored string or null: Number(null) is 0, a decimal
\* string is its value, any other text is NaN.
ToNumber(s) ==
  CASE s.t = "null" -> Num(0)
    [] s.t = "int" -> Num(100 * s.n)
    [] s.t = "fix2" -> Num(s.n)
    [] OTHER -> NaN

\* ------------------------------------------------------------- Semaphore
\* run(), lines 143-146, up to the first suspension: with no free slot the
\* caller's resolver is pushed, otherwise active++ and fn() is called.
SemEnter(a, q, who) ==
  IF a >= limit
    THEN [active |-> a, queue |-> Append(q, who), admitted |-> FALSE]
    ELSE [active |-> a + 1, queue |-> q, admitted |-> TRUE]

\* a finally block that wakes the next caller and keeps the slot counted
SemLeaveNoFree(a, q) ==
  IF q = <<>>
    THEN [active |-> a, queue |-> <<>>, woken |-> {}]
    ELSE [active |-> a, queue |-> Tail(q), woken |-> {Head(q)}]

\* a finally block that frees the slot and wakes nobody
SemLeaveNoWake(a, q) == [active |-> a - 1, queue |-> q, woken |-> {}]

\* run(), lines 149-152, the finally block: active-- and the first queued
\* resolver is shifted and called; woken is the caller it belongs to.
SemLeave(a, q) ==
  IF q = <<>>
    THEN [active |-> a - 1, queue |-> <<>>, woken |-> {}]
    ELSE [active |-> a - 1, queue |-> Tail(q), woken |-> {Head(q)}]

\* ---- generic callers of Semaphore.run
Tasks == 1..NTasks

\* a caller invokes run(fn)
TaskCall(t) ==
  /\ task[t] = "idle"
  /\ LET e == SemEnter(active, queue, t) IN
       /\ active' = e.active
       /\ queue' = e.queue
       /\ task' = [task EXCEPT ![t] = IF e.admitted THEN "running" ELSE "queued"]
       /\ waited' = IF e.admitted THEN waited ELSE waited \cup {t}
  /\ order' = Append(order, t)
  /\ UNCHANGED <<limit, runVars>>

\* the continuation of the await of line 144 runs: active++ (line 146) and
\* fn() is called
TaskResume(t) ==
  /\ task[t] = "woken"
  /\ active' = active + 1
  /\ task' = [task EXCEPT ![t] = "running"]
  /\ UNCHANGED <<limit, queue, runVars, order, waited>>

\* fn() settles, fulfilled (ok) or rejected: the finally block runs
TaskSettle(t, ok) ==
  /\ task[t] = "running"
  /\ LET r == SemLeave(active, queue) IN
       /\ active' = r.active
       /\ queue' = r.queue
       /\ task' = [u \in Tasks |->
                     IF u = t THEN (IF ok THEN "done" ELSE "failed")
                     ELSE IF u \in r.woken THEN "woken"
                     ELSE task[u]]
  /\ UNCHANGED <<limit, runVars, order, waited>>

\* ------------------------------------------------- the scheduled handler
\* the dids in the order a listing names them
Rank(d) == IF d = "A" THEN 1 ELSE 2

RepoDesc == [did : Dids, active : BOOLEAN]

\* the listings the upstream may answer: at most MaxRepos descriptors with
\* unique dids (any one order of them)
Listings ==
  {l \in UNION {[1..n -> RepoDesc] : n \in 0..MaxRepos} :
     \A i, j \in DOMAIN l : i < j => Rank(l[i].did) < Rank(l[j].did)}

Listed == {repos[i].did : i \in DOMAIN repos}

\* limitedFetch (part_000 156-160) in the limited handler, fetch itself in
\* index.ts: whether the request is sent now, and the semaphore afterwards
Fetch(a, q, who) ==
  IF variant = "limited"
    THEN SemEnter(a, q, who)
    ELSE [active |-> a, queue |-> q, admitted |-> TRUE]

\* the returned promise of that fetch settles: the finally block of run()
FetchSettled(a, q) ==
  IF variant = "limited"
    THEN SemLeave(a, q)
    ELSE [active |-> a, queue |-> q, woken |-> {}]

\* a repo callback whose queued call was woken by this release
WokenRp(r, w) ==
  [d \in DOMAIN r |->
     IF <<"part", d>> \in w THEN "partWoken"
     ELSE IF <<"score", d>> \in w THEN "scoreWoken"
     ELSE r[d]]

\* a handler that never looks at Response.ok
RespOkAlways(out) == TRUE

\* Response.ok of a response that arrived
RespOk(out) == out = "ok"

\* a callback without the active check
SkipInactiveNever(r) == FALSE

\* the check `if (!repo.active)` of the fan-out callback
SkipInactive(r) == ~r.active

\* a resolver that only asks whether a preference is set
ParticipatesIfSet(pref) == pref # "undefined"

\* a resolver that excludes only on the preference false
ParticipatesUnlessFalse(pref) == pref # "false"

\* a resolver that never excludes a repository
ParticipatesAlways(pref) == TRUE

\* validateParticipation(WithLimit), the tail after a 2xx response:
\* preference undefined gives true, otherwise preference === true
Participates(pref) == IF pref = "undefined" THEN TRUE ELSE pref = "true"

\* before the first run, before the first request
NoPrev ==
  [run |-> 0, list |-> "none", repos |-> <<>>, part |-> [d \in Dids |-> "none"],
   score |-> [d \in Dids |-> "none"], data |-> [d \in Dids |-> 0],
   kv |-> [k \in Keys |-> NULL], storeFailed |-> FALSE]
NoReq == [path |-> "none", did |-> "", at |-> "idle", pending |-> {}, kv0 |-> <<>>]
NoResp ==
  [status |-> 0, score |-> NULL, lastUpdated |-> NULL, individualScores |-> <<>>,
   pdsAccessibilityScore |-> NULL]

Fulfilled(d) == rp[d] \in {"skipInactive", "skipOptOut", "skipFailed", "updated"}
Rejected(d) == rp[d] \in {"rejPart", "rejScore", "rejPut"}

\* a callback has rejected and the handler's catch block has not run yet.
\* The rejection travels through Promise.all to the catch in microtasks,
\* so no I/O completion is delivered in between.
RejectionPending == pc = "fanout" /\ \E i \in DOMAIN repos : Rejected(repos[i].did)

\* a queued call of run() has been woken (line 151) and its continuation
\* (line 146) has not run yet: a microtask as well
WakePending == \E d \in DOMAIN rp : rp[d] \in {"partWoken", "scoreWoken"}

\* the handler's initial state; the store holds what earlier runs left
Init ==
  /\ variant \in {"index", "limited"}
  /\ pc = "idle"
  /\ cause = "none"
  /\ clock = 0
  /\ kv \in {f \in [Keys -> {NULL, IntStr(PriorScore), Fix2Str(PriorAvg), IsoStr(0)}] :
               /\ \A d \in Dids : f[d] \in {NULL, IntStr(PriorScore)}
               /\ f["pdsAccessibilityScore"] \in {NULL, Fix2Str(PriorAvg)}
               /\ f["lastUpdated"] \in {NULL, IsoStr(0)}
               /\ (f["lastUpdated"] = NULL) = (f["pdsAccessibilityScore"] = NULL)}
  /\ kvStart = kv
  /\ listStatus = "none"
  /\ repos = <<>>
  /\ rp = [d \in Dids |-> "none"]
  /\ partRes = [d \in Dids |-> "none"]
  /\ scoreData = [d \in Dids |-> 0]
  /\ partCalls = [d \in Dids |-> 0]
  /\ scoreCalls = [d \in Dids |-> 0]
  /\ written = {}
  /\ notif = "none"
  /\ notifCalls = 0
  /\ avgStr = NULL
  /\ scoreRes = [d \in Dids |-> "none"]
  /\ runNo = 0
  /\ prev = NoPrev
  /\ req = NoReq
  /\ resp = NoResp
  /\ limit = MAX_CONCURRENCY
  /\ active = 0
  /\ queue = <<>>
  /\ task = [t \in Tasks |-> "idle"]
  /\ order = <<>>
  /\ waited = {}

\* the cron trigger calls scheduled(): the semaphore is constructed and the
\* listing is requested through it
Trigger ==
  /\ pc = "idle"
  /\ pc' = "list"
  /\ clock' = clock + 1
  /\ kvStart' = kv
  /\ limit' = MAX_CONCURRENCY
  /\ LET e == Fetch(0, <<>>, <<"list", "">>) IN
       /\ active' = e.active
       /\ queue' = e.queue
  /\ runNo' = runNo + 1
  /\ UNCHANGED <<scoreRes, prev, req, resp, order, waited>>
  /\ UNCHANGED <<variant, cause, kv, listStatus, repos, rp, partRes, scoreData,
                 partCalls, scoreCalls, written, notif, notifCalls, avgStr, task>>

\* the listing fetch settles: a response (ok or not), or a network error
ListResponse(out) ==
  /\ pc = "list"
  /\ listStatus' = out
  /\ LET r == FetchSettled(active, queue) IN
       /\ active' = r.active
       /\ queue' = r.queue
  /\ IF out # "neterr" /\ RespOk(out)
       THEN /\ pc' = "listBody"
            /\ cause' = cause
       ELSE /\ pc' = "Aborted"
            /\ cause' = "list"
  /\ UNCHANGED <<scoreRes, others>>
  /\ UNCHANGED <<variant, clock, kv, kvStart, repos, rp, partRes, scoreData,
                 partCalls, scoreCalls, written, notif, notifCalls, avgStr, limit, task>>

\* reposResponse.json() rejects, or apiObj is null
ListBodyMalformed ==
  /\ pc = "listBody"
  /\ pc' = "Aborted"
  /\ cause' = "list"
  /\ listStatus' = "malformed"
  /\ UNCHANGED <<scoreRes, others>>
  /\ UNCHANGED <<variant, clock, kv, kvStart, repos, rp, partRes, scoreData,
                 partCalls, scoreCalls, written, notif, notifCalls, avgStr,
                 limit, active, queue, task>>

\* repos.map(callback): each callback runs to its first await, in listing
\* order; st carries the semaphore, rp and partCalls through the map
RECURSIVE FanOut(_, _)
FanOut(l, st) ==
  IF l = <<>> THEN st
  ELSE LET r == Head(l)
           e == Fetch(st.active, st.queue, <<"part", r.did>>)
       IN IF SkipInactive(r)
            THEN FanOut(Tail(l), [st EXCEPT !.rp[r.did] = "skipInactive"])
            ELSE FanOut(Tail(l),
                   [active |-> e.active,
                    queue |-> e.queue,
                    rp |-> [st.rp EXCEPT ![r.did] =
                              IF e.admitted THEN "partFetch" ELSE "partQueued"],
                    partCalls |-> [st.partCalls EXCEPT ![r.did] =
                              IF e.admitted THEN @ + 1 ELSE @]])

\* the listing body is parsed and the fan-out is started
ListBodyParsed(l) ==
  /\ pc = "listBody"
  /\ repos' = l
  /\ pc' = "fanout"
  /\ LET st == FanOut(l, [active |-> active, queue |-> queue, rp |-> rp,
                          partCalls |-> partCalls]) IN
       /\ active' = st.active
       /\ queue' = st.queue
       /\ rp' = st.rp
       /\ partCalls' = st.partCalls
  /\ UNCHANGED <<scoreRes, others>>
  /\ UNCHANGED <<variant, cause, clock, kv, kvStart, listStatus, partRes, scoreData,
                 scoreCalls, written, notif, notifCalls, avgStr, limit, task>>

\* the participation fetch of d settles.  A network error rejects
\* limitedFetch, and with it validateParticipation and the callback.
PartResponse(d, out) ==
  /\ rp[d] = "partFetch"
  /\ ~RejectionPending /\ ~WakePending
  /\ LET r == FetchSettled(active, queue) IN
       /\ active' = r.active
       /\ queue' = r.queue
       /\ rp' = [WokenRp(rp, r.woken) EXCEPT ![d] =
                   IF out = "neterr" THEN "rejPart"
                   ELSE IF RespOk(out) THEN "partBody" ELSE "partErrBody"]
  /\ partRes' = [partRes EXCEPT ![d] = IF out = "neterr" THEN "neterr" ELSE @]
  /\ UNCHANGED <<scoreRes, others>>
  /\ UNCHANGED <<variant, pc, cause, clock, kv, kvStart, listStatus, repos, scoreData,
                 partCalls, scoreCalls, written, notif, notifCalls, avgStr, limit, task>>

\* the callback of d goes on after validateParticipation returned true: the
\* score is requested
ScoreRequested(d, res) ==
  /\ partRes' = [partRes EXCEPT ![d] = res]
  /\ LET e == Fetch(active, queue, <<"score", d>>) IN
       /\ active' = e.active
       /\ queue' = e.queue
       /\ rp' = [rp EXCEPT ![d] = IF e.admitted THEN "scoreFetch" ELSE "scoreQueued"]
       /\ scoreCalls' = [scoreCalls EXCEPT ![d] = IF e.admitted THEN @ + 1 ELSE @]

\* the body of a non-2xx participation response: RecordNotFound ("notfound"),
\* another JSON body ("errOther") or no JSON ("errMalformed"); all return true
PartErrBody(d, body) ==
  /\ rp[d] = "partErrBody"
  /\ ~RejectionPending /\ ~WakePending
  /\ ScoreRequested(d, body)
  /\ UNCHANGED <<scoreRes, others>>
  /\ UNCHANGED <<variant, pc, cause, clock, kv, kvStart, listStatus, repos, scoreData,
                 partCalls, written, notif, notifCalls, avgStr, limit, task>>

\* the body of a 2xx participation response that is no JSON (or null):
\* recordResponse.json() is outside any try, the callback rejects
PartBodyMalformed(d) ==
  /\ rp[d] = "partBody"
  /\ ~RejectionPending /\ ~WakePending
  /\ rp' = [rp EXCEPT ![d] = "rejPart"]
  /\ partRes' = [partRes EXCEPT ![d] = "okMalformed"]
  /\ UNCHANGED <<scoreRes, others>>
  /\ UNCHANGED <<variant, pc, cause, clock, kv, kvStart, listStatus, repos, scoreData,
                 partCalls, scoreCalls, written, notif, notifCalls, avgStr,
                 limit, active, queue, task>>

\* the body of a 2xx participation response: the preference is absent
\* ("undefined"), true, false, or another JSON value ("other")
PartBody(d, pref) ==
  /\ rp[d] = "partBody"
  /\ ~RejectionPending /\ ~WakePending
  /\ IF Participates(pref)
       THEN ScoreRequested(d, pref)
       ELSE /\ rp' = [rp EXCEPT ![d] = "skipOptOut"]
            /\ partRes' = [partRes EXCEPT ![d] = pref]
            /\ UNCHANGED <<active, queue, scoreCalls>>
  /\ UNCHANGED <<scoreRes, others>>
  /\ UNCHANGED <<variant, pc, cause, clock, kv, kvStart, listStatus, repos, scoreData,
                 partCalls, written, notif, notifCalls, avgStr, limit, task>>

\* the score fetch of d settles
ScoreResponse(d, out) ==
  /\ rp[d] = "scoreFetch"
  /\ ~RejectionPending /\ ~WakePending
  /\ LET r == FetchSettled(active, queue) IN
       /\ active' = r.active
       /\ queue' = r.queue
       /\ rp' = [WokenRp(rp, r.woken) EXCEPT ![d] =
                   IF out = "neterr" THEN "rejScore"
                   ELSE IF RespOk(out) THEN "scoreBody" ELSE "skipFailed"]
  /\ scoreRes' = [scoreRes EXCEPT ![d] = out]
  /\ UNCHANGED others
  /\ UNCHANGED <<variant, pc, cause, clock, kv, kvStart, listStatus, repos, partRes,
                 scoreData, partCalls, scoreCalls, written, notif, notifCalls, avgStr,
                 limit, task>>

\* the score body is no JSON, or has no score: json() or
\* scoreData.score.toString() throws
ScoreBodyMalformed(d) ==
  /\ rp[d] = "scoreBody"
  /\ ~RejectionPending /\ ~WakePending
  /\ rp' = [rp EXCEPT ![d] = "rejScore"]
  /\ scoreRes' = [scoreRes EXCEPT ![d] = "malformed"]
  /\ UNCHANGED others
  /\ UNCHANGED <<variant, pc, cause, clock, kv, kvStart, listStatus, repos, partRes,
                 scoreData, partCalls, scoreCalls, written, notif, notifCalls, avgStr,
                 limit, active, queue, task>>

\* the score body is parsed and KV.put(did, score.toString()) is called
ScoreBody(d, n) ==
  /\ rp[d] = "scoreBody"
  /\ ~RejectionPending /\ ~WakePending
  /\ scoreData' = [scoreData EXCEPT ![d] = n]
  /\ rp' = [rp EXCEPT ![d] = "put"]
  /\ scoreRes' = [scoreRes EXCEPT ![d] = "parsed"]
  /\ UNCHANGED others
  /\ UNCHANGED <<variant, pc, cause, clock, kv, kvStart, listStatus, repos, partRes,
                 partCalls, scoreCalls, written, notif, notifCalls, avgStr,
                 limit, active, queue, task>>

\* a put that stores the score under every did key of the store
PutDoneEveryDid(d, ok) ==
  /\ rp[d] = "put"
  /\ ~RejectionPending /\ ~WakePending
  /\ IF ok
       THEN /\ kv' = [k \in DOMAIN kv |->
                       IF k \in ReservedKeys THEN kv[k] ELSE IntStr(scoreData[d])]
            /\ written' = written \cup (DOMAIN kv \ ReservedKeys)
            /\ rp' = [rp EXCEPT ![d] = "updated"]
       ELSE /\ rp' = [rp EXCEPT ![d] = "rejPut"]
            /\ UNCHANGED <<kv, written>>
  /\ UNCHANGED <<scoreRes, others>>
  /\ UNCHANGED <<variant, pc, cause, clock, kvStart, listStatus, repos, partRes,
                 scoreData, partCalls, scoreCalls, notif, notifCalls, avgStr,
                 limit, active, queue, task>>

\* the put of d's score settles: written, or failed (the callback rejects)
PutDone(d, ok) ==
  /\ rp[d] = "put"
  /\ ~RejectionPending /\ ~WakePending
  /\ IF ok
       THEN /\ kv' = [kv EXCEPT ![d] = IntStr(scoreData[d])]
            /\ written' = written \cup {d}
            /\ rp' = [rp EXCEPT ![d] = "updated"]
       ELSE /\ rp' = [rp EXCEPT ![d] = "rejPut"]
            /\ UNCHANGED <<kv, written>>
  /\ UNCHANGED <<scoreRes, others>>
  /\ UNCHANGED <<variant, pc, cause, clock, kvStart, listStatus, repos, partRes,
                 scoreData, partCalls, scoreCalls, notif, notifCalls, avgStr,
                 limit, active, queue, task>>

\* a call of run() that was queued and woken resumes: active++ and the
\* fetch is sent
Resume(d) ==
  /\ rp[d] \in {"partWoken", "scoreWoken"}
  /\ active' = active + 1
  /\ rp' = [rp EXCEPT ![d] = IF @ = "partWoken" THEN "partFetch" ELSE "scoreFetch"]
  /\ partCalls' = [partCalls EXCEPT ![d] = IF rp[d] = "partWoken" THEN @ + 1 ELSE @]
  /\ scoreCalls' = [scoreCalls EXCEPT ![d] = IF rp[d] = "scoreWoken" THEN @ + 1 ELSE @]
  /\ UNCHANGED <<scoreRes, others>>
  /\ UNCHANGED <<variant, pc, cause, clock, kv, kvStart, listStatus, repos, partRes,
                 scoreData, written, notif, notifCalls, avgStr, limit, queue, task>>

\* Promise.all rejects as soon as one callback rejects: the catch block
FanOutRejected ==
  /\ pc = "fanout"
  /\ ~WakePending
  /\ \E d \in Listed : Rejected(d)
  /\ pc' = "Aborted"
  /\ cause' = "fanout"
  /\ UNCHANGED <<scoreRes, others>>
  /\ UNCHANGED <<variant, clock, kv, kvStart, listStatus, repos, rp, partRes, scoreData,
                 partCalls, scoreCalls, written, notif, notifCalls, avgStr,
                 limit, active, queue, task>>

\* allScores.map(Number).filter(n => !isNaN(n)) as the numbers kept, for the
\* values read for the listing l
RECURSIVE NumericScores(_, _)
NumericScores(l, store) ==
  IF l = <<>> THEN <<>>
  ELSE LET n == ToNumber(store[Head(l).did])
       IN IF n.nan THEN NumericScores(Tail(l), store)
          ELSE <<n.h>> \o NumericScores(Tail(l), store)

RECURSIVE SumSeq(_)
SumSeq(q) == IF q = <<>> THEN 0 ELSE Head(q) + SumSeq(Tail(q))

\* (sum / count).toFixed(2), sum in hundredths: the nearest hundredth
ToFixed2(sum, count) == Fix2Str((2 * sum + count) \div (2 * count))

\* avgScore.toFixed(2) as each handler computes avgScore: part_000 guards the
\* empty list (NaN), index.ts divides 0 by 0 (NaN as well)
AvgFixed(ns) ==
  IF Len(ns) = 0 THEN NaNStr ELSE ToFixed2(SumSeq(ns), Len(ns))

\* !Number.isNaN(avgScore) in part_000; index.ts puts without asking
PutsAverage(a) == IF variant = "limited" THEN a # NaNStr ELSE TRUE

\* Promise.all is fulfilled: every callback returned.  The store is read
\* for every listed did and the average is computed
Aggregate ==
  /\ pc = "fanout"
  /\ \A d \in Listed : Fulfilled(d)
  /\ avgStr' = AvgFixed(NumericScores(repos, kv))
  /\ pc' = IF PutsAverage(avgStr') THEN "putAvg" ELSE "putLast"
  /\ UNCHANGED <<scoreRes, others>>
  /\ UNCHANGED <<variant, cause, clock, kv, kvStart, listStatus, repos, rp, partRes,
                 scoreData, partCalls, scoreCalls, written, notif, notifCalls,
                 limit, active, queue, task>>

\* put("pdsAccessibilityScore", avgScore.toFixed(2)) settles
PutAvg(ok) ==
  /\ pc = "putAvg"
  /\ IF ok
       THEN /\ kv' = [kv EXCEPT !["pdsAccessibilityScore"] = avgStr]
            /\ written' = written \cup {"pdsAccessibilityScore"}
            /\ pc' = "putLast"
            /\ cause' = cause
       ELSE /\ pc' = "Aborted"
            /\ cause' = "aggPut"
            /\ UNCHANGED <<kv, written>>
  /\ UNCHANGED <<scoreRes, others>>
  /\ UNCHANGED <<variant, clock, kvStart, listStatus, repos, rp, partRes, scoreData,
                 partCalls, scoreCalls, notif, notifCalls, avgStr,
                 limit, active, queue, task>>

\* put("lastUpdated", new Date().toISOString()) settles; then notifyDiscord
\* is called: inside ctx.waitUntil in part_000, awaited in index.ts
PutLast(ok) ==
  /\ pc = "putLast"
  /\ IF ok
       THEN /\ kv' = [kv EXCEPT !["lastUpdated"] = IsoStr(clock)]
            /\ written' = written \cup {"lastUpdated"}
            /\ notif' = "inflight"
            /\ notifCalls' = notifCalls + 1
            /\ pc' = IF variant = "limited" THEN "Completed" ELSE "notify"
            /\ cause' = cause
       ELSE /\ pc' = "Aborted"
            /\ cause' = "aggPut"
            /\ UNCHANGED <<kv, written, notif, notifCalls>>
  /\ UNCHANGED <<scoreRes, others>>
  /\ UNCHANGED <<variant, clock, kvStart, listStatus, repos, rp, partRes, scoreData,
                 partCalls, scoreCalls, avgStr, limit, active, queue, task>>

\* the webhook call settles: 2xx, non-2xx or network error (notifyDiscord
\* throws on both).  Only index.ts is waiting for it.
NotifyResponse(out) ==
  /\ notif = "inflight"
  /\ notif' = IF out # "neterr" /\ RespOk(out) THEN "ok" ELSE "failed"
  /\ IF pc = "notify"
       THEN /\ pc' = IF notif' = "ok" THEN "Completed" ELSE "Aborted"
            /\ cause' = IF notif' = "ok" THEN cause ELSE "notify"
       ELSE UNCHANGED <<pc, cause>>
  /\ UNCHANGED <<scoreRes, others>>
  /\ UNCHANGED <<variant, clock, kv, kvStart, listStatus, repos, rp, partRes, scoreData,
                 partCalls, scoreCalls, written, notifCalls, avgStr,
                 limit, active, queue, task>>

\* what a fetch, an error body and a preference can be
Outcomes == {"ok", "notok", "neterr"}
ErrBodies == {"notfound", "errOther", "errMalformed"}
Prefs == {"undefined", "true", "false", "other"}

\* One run of the handler.  With at most MaxRepos calls of run() at a time
\* and MAX_CONCURRENCY slots no call is queued, so Resume is no step here;
\* the queueing path of run() is taken under SemSpec and FanSpec.
Next ==
  \/ Trigger
  \/ \E out \in Outcomes : ListResponse(out)
  \/ ListBodyMalformed
  \/ \E l \in Listings : ListBodyParsed(l)
  \/ \E d \in Dids, out \in Outcomes : PartResponse(d, out)
  \/ \E d \in Dids, body \in ErrBodies : PartErrBody(d, body)
  \/ \E d \in Dids : PartBodyMalformed(d)
  \/ \E d \in Dids, pref \in Prefs : PartBody(d, pref)
  \/ \E d \in Dids, out \in Outcomes : ScoreResponse(d, out)
  \/ \E d \in Dids : ScoreBodyMalformed(d)
  \/ \E d \in Dids, n \in Scores : ScoreBody(d, n)
  \/ \E d \in Dids, ok \in BOOLEAN : PutDone(d, ok)
  \/ FanOutRejected
  \/ Aggregate
  \/ \E ok \in BOOLEAN : PutAvg(ok)
  \/ \E ok \in BOOLEAN : PutLast(ok)
  \/ \E out \in Outcomes : NotifyResponse(out)

Spec == Init /\ [][Next]_vars

\* ---- a Semaphore of any limit under generic callers
SemInit ==
  /\ limit \in 1..MaxLimit
  /\ active = 0
  /\ queue = <<>>
  /\ task = [t \in Tasks |-> "idle"]
  /\ order = <<>>
  /\ waited = {}
  /\ variant = "limited"
  /\ pc = "idle"
  /\ cause = "none"
  /\ clock = 0
  /\ kv = [k \in Keys |-> NULL]
  /\ kvStart = kv
  /\ listStatus = "none"
  /\ repos = <<>>
  /\ rp = [d \in Dids |-> "none"]
  /\ partRes = [d \in Dids |-> "none"]
  /\ scoreData = [d \in Dids |-> 0]
  /\ partCalls = [d \in Dids |-> 0]
  /\ scoreCalls = [d \in Dids |-> 0]
  /\ written = {}
  /\ notif = "none"
  /\ notifCalls = 0
  /\ avgStr = NULL
  /\ scoreRes = [d \in Dids |-> "none"]
  /\ runNo = 0
  /\ prev = NoPrev
  /\ req = NoReq
  /\ resp = NoResp

SemNext ==
  \/ \E t \in Tasks : TaskCall(t)
  \/ \E t \in Tasks : TaskResume(t)
  \/ \E t \in Tasks, ok \in BOOLEAN : TaskSettle(t, ok)

SemSpec == SemInit /\ [][SemNext]_vars

\* ------------------------------------------------------------- properties
PostFanOut == {"putAvg", "putLast", "notify", "Completed", "Aborted"}

\* the values stored under the listed dids that have one, in hundredths
RECURSIVE StoredListed(_, _)
StoredListed(l, store) ==
  IF l = <<>> THEN <<>>
  ELSE IF store[Head(l).did] = NULL THEN StoredListed(Tail(l), store)
       ELSE <<100 * store[Head(l).did].n>> \o StoredListed(Tail(l), store)

\* C1: the number of generic callers admitted by run() and not yet settled
\* is at most the limit, in every state, also between a wake-up and the
\* resumption of the woken caller.
C1_AtMostLimit == Cardinality({t \in Tasks : task[t] = "running"}) <= limit

\* a put of the store or the webhook failed (not a lookup or a score fetch)
StoreOrSinkFailed ==
  \/ cause \in {"aggPut", "notify"}
  \/ \E d \in Dids : rp[d] = "rejPut"

\* C2: no failure of a repository's participation lookup or score fetch
\* brings the handler to its catch block: with store and webhook working,
\* the run is Aborted only by a failure of the List step.
C2_OnlyListAborts == (pc = "Aborted" /\ ~StoreOrSinkFailed) => cause = "list"

\* C3: after a Completed run with at least one listed did that has a stored
\* value, pdsAccessibilityScore is the two-decimal mean of exactly the values
\* stored under the listed dids; a listed did without a value adds nothing.
C3_MeanOfStored ==
  (pc = "Completed" /\ StoredListed(repos, kv) # <<>>) =>
     kv["pdsAccessibilityScore"] =
       ToFixed2(SumSeq(StoredListed(repos, kv)), Len(StoredListed(repos, kv)))

\* C4: a Completed run in which no listed did has a stored value leaves
\* pdsAccessibilityScore unwritten at its prior value and writes lastUpdated
\* with the run's timestamp.
C4_NoScoreNoAverage ==
  (pc = "Completed" /\ \A d \in Listed : kv[d] = NULL) =>
     /\ "pdsAccessibilityScore" \notin written
     /\ kv["pdsAccessibilityScore"] = kvStart["pdsAccessibilityScore"]
     /\ kv["lastUpdated"] = IsoStr(clock)

\* C5: when the listing answers with a non-success response the run is
\* Aborted, the store is as it was at the trigger, no participation lookup or
\* score fetch was issued and the webhook was not called.
C5_ListFailureAborts ==
  listStatus = "notok" =>
     /\ pc = "Aborted"
     /\ kv = kvStart
     /\ written = {}
     /\ \A d \in Dids : partCalls[d] = 0 /\ scoreCalls[d] = 0
     /\ notif = "none"
     /\ notifCalls = 0

C5_Witness ==
  /\ listStatus = "notok"
  /\ pc = "Aborted"
  /\ kvStart["lastUpdated"] = IsoStr(0)
  /\ kvStart["A"] = IntStr(PriorScore)

\* C6: the resolver is fail-open: a did is skipped as opted out only when
\* the lookup succeeded with the preference explicitly false, and no answer
\* of the lookup makes the resolver throw into the pipeline.
C6_FailOpen ==
  \A d \in Dids :
     /\ rp[d] = "skipOptOut" => partRes[d] = "false"
     /\ rp[d] # "rejPart"

NoLatePut == pc \in PostFanOut => \A d \in Dids : ~(rp[d] = "put" /\ rp'[d] = "updated")

\* past the fan-out every callback of the listing has settled
AllSettled == pc \in PostFanOut \ {"Aborted"} => \A d \in Listed : Fulfilled(d) \/ Rejected(d)

\* C9: the aggregate step starts only when every fan-out callback has
\* settled, and no fan-out put lands once the aggregate reads have started
\* or the run is in a terminal state.
C9_Barrier == [][NoLatePut /\ AllSettled']_vars

\* C10: the summary is handed to the webhook without waiting for it: from
\* the call on the run is Completed, whatever the webhook answers.
C10_NotifyDetached == notif # "none" => pc = "Completed"

\* C11: a failed put of a repository's score does not abort the run: the
\* fan-out is never left through the catch block when no lookup and no score
\* fetch threw.
C11_PutFailureContained ==
  (pc = "Aborted" /\ cause = "fanout") =>
     \E d \in Listed : rp[d] \in {"rejPart", "rejScore"}

\* ------------------------------------------------ two runs in a row
MaxRuns == 2

\* the upstream answers in the second run what it answered in the first:
\* rec is the answer recorded then ("none" if the request was never
\* answered), val the answer now
Same(rec, val) == runNo < 2 \/ rec = "none" \/ rec = val

\* the response status that goes with a recorded participation answer
PartStatus(res) ==
  CASE res = "none" -> "none"
    [] res = "neterr" -> "neterr"
    [] res \in {"notfound", "errOther", "errMalformed"} -> "notok"
    [] OTHER -> "ok"

\* the response status that goes with a recorded score answer
ScoreStatus(res) ==
  CASE res \in {"parsed", "malformed"} -> "ok"
    [] OTHER -> res

\* the invocation has ended and the cron trigger comes round again: what the
\* upstream answered and what the store holds are kept for comparison, the
\* handler's locals and whatever the ended invocation still had pending are
\* gone
Rearm ==
  /\ pc \in {"Completed", "Aborted"}
  /\ runNo < MaxRuns
  /\ prev' = [run |-> runNo, list |-> listStatus, repos |-> repos, part |-> partRes,
              score |-> scoreRes, data |-> scoreData, kv |-> kv,
              storeFailed |-> (cause = "aggPut" \/ \E d \in Dids : rp[d] = "rejPut")]
  /\ pc' = "idle"
  /\ cause' = "none"
  /\ listStatus' = "none"
  /\ repos' = <<>>
  /\ rp' = [d \in Dids |-> "none"]
  /\ partRes' = [d \in Dids |-> "none"]
  /\ scoreRes' = [d \in Dids |-> "none"]
  /\ scoreData' = [d \in Dids |-> 0]
  /\ partCalls' = [d \in Dids |-> 0]
  /\ scoreCalls' = [d \in Dids |-> 0]
  /\ written' = {}
  /\ notif' = "none"
  /\ notifCalls' = 0
  /\ avgStr' = NULL
  /\ active' = 0
  /\ queue' = <<>>
  /\ UNCHANGED <<variant, clock, kv, kvStart, limit, task, runNo, req, resp, order, waited>>

Next2 ==
  \/ Trigger
  \/ Rearm
  \/ \E out \in Outcomes :
        /\ Same(IF prev.list = "malformed" THEN "ok" ELSE prev.list, out)
        /\ ListResponse(out)
  \/ Same(prev.list, "malformed") /\ ListBodyMalformed
  \/ \E l \in Listings :
        /\ runNo < 2 \/ (prev.list = "ok" /\ prev.repos = l)
        /\ ListBodyParsed(l)
  \/ \E d \in Dids, out \in Outcomes :
        /\ Same(PartStatus(prev.part[d]), out)
        /\ PartResponse(d, out)
  \/ \E d \in Dids, body \in ErrBodies : Same(prev.part[d], body) /\ PartErrBody(d, body)
  \/ \E d \in Dids : Same(prev.part[d], "okMalformed") /\ PartBodyMalformed(d)
  \/ \E d \in Dids, pref \in Prefs : Same(prev.part[d], pref) /\ PartBody(d, pref)
  \/ \E d \in Dids, out \in Outcomes :
        /\ Same(ScoreStatus(prev.score[d]), out)
        /\ ScoreResponse(d, out)
  \/ \E d \in Dids : Same(prev.score[d], "malformed") /\ ScoreBodyMalformed(d)
  \/ \E d \in Dids, n \in Scores :
        /\ runNo < 2 \/ prev.score[d] \in {"none", "ok"}
                     \/ (prev.score[d] = "parsed" /\ prev.data[d] = n)
        /\ ScoreBody(d, n)
  \/ \E d \in Dids, ok \in BOOLEAN : PutDone(d, ok)
  \/ FanOutRejected
  \/ Aggregate
  \/ \E ok \in BOOLEAN : PutAvg(ok)
  \/ \E ok \in BOOLEAN : PutLast(ok)
  \/ \E out \in Outcomes : NotifyResponse(out)

\* the first of the two runs finds the store empty, or filled by earlier runs
Init2 ==
  /\ Init
  /\ \/ \A k \in Keys : kv[k] = NULL
     \/ \A k \in Keys : kv[k] # NULL

Spec2 == Init2 /\ [][Next2]_vars

\* C12: a second run with the same upstream answers as the first leaves every
\* stored score and pdsAccessibilityScore as they were after the first run
\* (store and webhook working); only lastUpdated may differ.
C12_Idempotent ==
  (/\ runNo = 2
   /\ pc \in {"Completed", "Aborted"}
   /\ ~StoreOrSinkFailed
   /\ ~prev.storeFailed) =>
     \A k \in Dids \cup {"pdsAccessibilityScore"} : kv[k] = prev.kv[k]

\* the same for two runs that both end Completed
IdempotentWhenCompleted ==
  (/\ runNo = 2
   /\ pc = "Completed"
   /\ prev.list = "ok"
   /\ \A i \in DOMAIN prev.repos :
         prev.repos[i].active => prev.part[prev.repos[i].did] # "none"
   /\ ~prev.storeFailed) =>
     \A k \in Dids \cup {"pdsAccessibilityScore"} : kv[k] = prev.kv[k]

\* ---------------------------------------------------------------------------
\* Order of admission by Semaphore.run (SemSpec)

\* the callers that have invoked run(), and their position of arrival
Arrived == {order[i] : i \in 1..Len(order)}
PosIn(o, t) == CHOOSE i \in 1..Len(o) : o[i] = t
Pos(t) == PosIn(order, t)
\* fn() of the caller has been called (line 147)
Admitted(t) == task[t] \in {"running", "done", "failed"}

\* C13: a caller that had to queue is never overtaken: whenever a caller
\* that invoked run() later has been admitted, every caller that arrived
\* before it and was queued has been admitted too.
C13_FifoNoOvertake ==
  \A t \in waited, u \in Arrived :
     (Pos(u) > Pos(t) /\ Admitted(u)) => Admitted(t)

\* every step shortens the queue by at most its head, and the caller at the
\* head is the one woken; the queue holds callers in order of arrival
ReleasesHeadOnly ==
  [][/\ Len(queue') >= Len(queue) - 1
     /\ Len(queue') < Len(queue) =>
          /\ queue' = Tail(queue)
          /\ task[Head(queue)] = "queued" /\ task'[Head(queue)] = "woken"
     /\ \A i, j \in 1..Len(queue') : i < j => PosIn(order', queue'[i]) < PosIn(order', queue'[j])]_vars

\* ---------------------------------------------------------------------------
\* A run over a listing longer than the limiter has slots

\* the dids of that listing, in listing order: MAX_CONCURRENCY + 1 of them
BigOrder == <<"R1", "R2", "R3", "R4", "R5", "R6", "R7">>
BigDids == {BigOrder[i] : i \in 1..Len(BigOrder)}
BigListing == [i \in 1..Len(BigOrder) |-> [did |-> BigOrder[i], active |-> TRUE]]

\* an empty store; no run before
FanInit ==
  /\ variant \in {"index", "limited"}
  /\ pc = "idle"
  /\ cause = "none"
  /\ clock = 0
  /\ kv = [k \in BigDids \cup ReservedKeys |-> NULL]
  /\ kvStart = kv
  /\ listStatus = "none"
  /\ repos = <<>>
  /\ rp = [d \in BigDids |-> "none"]
  /\ partRes = [d \in BigDids |-> "none"]
  /\ scoreData = [d \in BigDids |-> 0]
  /\ partCalls = [d \in BigDids |-> 0]
  /\ scoreCalls = [d \in BigDids |-> 0]
  /\ written = {}
  /\ notif = "none"
  /\ notifCalls = 0
  /\ avgStr = NULL
  /\ scoreRes = [d \in BigDids |-> "none"]
  /\ runNo = 0
  /\ prev = NoPrev
  /\ req = NoReq
  /\ resp = NoResp
  /\ limit = MAX_CONCURRENCY
  /\ active = 0
  /\ queue = <<>>
  /\ task = [t \in Tasks |-> "idle"]
  /\ order = <<>>
  /\ waited = {}

\* the run in which every upstream call and every store call succeeds and
\* every repo participates
FanNext ==
  \/ Trigger
  \/ ListResponse("ok")
  \/ ListBodyParsed(BigListing)
  \/ \E d \in BigDids : PartResponse(d, "ok")
  \/ \E d \in BigDids : PartBody(d, "true")
  \/ \E d \in BigDids : ScoreResponse(d, "ok")
  \/ \E d \in BigDids : ScoreBody(d, 80)
  \/ \E d \in BigDids : PutDone(d, TRUE)
  \/ \E d \in BigDids : Resume(d)
  \/ Aggregate
  \/ PutAvg(TRUE)
  \/ PutLast(TRUE)
  \/ NotifyResponse("ok")

FanSpec == FanInit /\ [][FanNext]_vars

\* the outbound fetches of the pipeline whose promise has not settled
InFlight ==
  (IF pc = "list" THEN 1 ELSE 0)
    + Cardinality({d \in DOMAIN rp : rp[d] \in {"partFetch", "scoreFetch"}})

\* C14: the listing fetch, the participation lookups and the score fetches
\* in flight are at most MAX_CONCURRENCY together, whatever the length of
\* the listing, and no callback that is at a store call holds or waits for
\* a slot.
C14_OutboundAtMostLimit == InFlight <= MAX_CONCURRENCY

\* the same for the handler that sends its fetches through limitedFetch
LimitedAtMostLimit == variant = "limited" => InFlight <= MAX_CONCURRENCY

\* in the handler with the limiter the counter is the number of fetches in
\* flight, so a callback at KV.put holds no slot, and only fetches queue
StoreCallsUngated ==
  variant = "limited" =>
     /\ active = InFlight
     /\ \A i \in 1..Len(queue) : queue[i][1] \in {"part", "score"}

\* ---------------------------------------------------------------------------
\* The fetch handler (the query API), one request at a time, while a run of
\* the scheduled handler may be writing the store

\* ACCESSIBILITY_KV.get(k): null for a key the store does not hold
KvGet(store, k) == IF k \in DOMAIN store THEN store[k] ELSE NULL

\* a test that takes every value read as present
FalsyNever(v) == FALSE

\* `!score`, `!lastUpdated`, `!value` for what KV.get returned: null is
\* falsy, a string the handlers stored is not (none of them is empty)
Falsy(v) == v = NULL

\* the literal "Unknown"
UnknownStr == [t |-> "text", n |-> 0]

\* a branch chain that knows one reserved key only
AllRouteLastOnly(name) ==
  IF name = "lastUpdated" THEN "lastUpdated" ELSE "individualScores"

\* the if / else if / else on key.name of the read-everything callback
AllRoute(name) ==
  IF name = "lastUpdated" THEN "lastUpdated"
  ELSE IF name = "pdsAccessibilityScore" THEN "pdsAccessibilityScore"
  ELSE "individualScores"

\* the key read by /accessibilityScore: `!did` holds for a missing and for an
\* empty did parameter
ScoreKey(did) == IF did = "" THEN "pdsAccessibilityScore" ELSE did

\* the did parameters of a request: none, a did the store may hold, a did it
\* never holds
QueryDids == {""} \cup Dids \cup {"Z"}

notQuery == <<variant, pc, cause, clock, kv, kvStart, listStatus, repos, rp, partRes,
              scoreData, partCalls, scoreCalls, written, notif, notifCalls, avgStr,
              scoreRes, runNo, prev, limit, active, queue, task, order, waited>>

\* a request arrives; a path that is neither of the two is answered at once
\* with 404 "Not Found."
QRequest(path, did) ==
  /\ req.at \in {"idle", "done"}
  /\ req' = [path |-> path, did |-> did, pending |-> {}, kv0 |-> kv,
             at |-> CASE path = "score" -> "get" [] path = "all" -> "list"
                      [] OTHER -> "done"]
  /\ resp' = IF path = "other" THEN [NoResp EXCEPT !.status = 404] ELSE NoResp
  /\ UNCHANGED notQuery

\* /accessibilityScore: the get of the did, or of pdsAccessibilityScore,
\* returns
QGetScore ==
  /\ req.at = "get"
  /\ LET score == KvGet(kv, ScoreKey(req.did)) IN
       IF Falsy(score)
         THEN /\ resp' = [resp EXCEPT !.status = 404]
              /\ req' = [req EXCEPT !.at = "done"]
         ELSE /\ resp' = [resp EXCEPT !.score = ToNumber(score)]
              /\ req' = [req EXCEPT !.at = "last"]
  /\ UNCHANGED notQuery

\* the get of lastUpdated returns and the response is sent
QGetLast ==
  /\ req.at = "last"
  /\ LET lastUpdated == KvGet(kv, "lastUpdated") IN
       resp' = [resp EXCEPT !.status = 200,
                            !.lastUpdated = IF Falsy(lastUpdated) THEN UnknownStr
                                            ELSE lastUpdated]
  /\ req' = [req EXCEPT !.at = "done"]
  /\ UNCHANGED notQuery

\* /accessibilityScore/all: list() returns the keys the store holds and a
\* get is issued for each
QList ==
  /\ req.at = "list"
  /\ req' = [req EXCEPT !.at = "gets",
                        !.pending = {k \in DOMAIN kv : kv[k] # NULL}]
  /\ UNCHANGED <<resp, notQuery>>

\* the get of one listed key returns
QAllGet(k) ==
  /\ req.at = "gets"
  /\ k \in req.pending
  /\ req' = [req EXCEPT !.pending = @ \ {k}]
  /\ LET value == KvGet(kv, k) IN
       resp' =
         IF Falsy(value) THEN resp
         ELSE CASE AllRoute(k) = "lastUpdated" -> [resp EXCEPT !.lastUpdated = value]
                [] AllRoute(k) = "pdsAccessibilityScore" ->
                     [resp EXCEPT !.pdsAccessibilityScore = ToNumber(value)]
                [] OTHER ->
                     [resp EXCEPT !.individualScores =
                        Append(@, [did |-> k, score |-> ToNumber(value)])]
  /\ UNCHANGED notQuery

\* every get has returned: the response is sent
QAllRespond ==
  /\ req.at = "gets"
  /\ req.pending = {}
  /\ req' = [req EXCEPT !.at = "done"]
  /\ resp' = [resp EXCEPT !.status = 200]
  /\ UNCHANGED notQuery

\* requests of every kind against a store that a run is filling
QueryNext ==
  \/ \E did \in QueryDids : QRequest("score", did)
  \/ QRequest("all", "")
  \/ QRequest("other", "")
  \/ QGetScore
  \/ QGetLast
  \/ QList
  \/ \E k \in Keys : QAllGet(k)
  \/ QAllRespond
  \/ Trigger
  \/ ListResponse("ok")
  \/ \E l \in Listings : ListBodyParsed(l)
  \/ \E d \in Dids : PartResponse(d, "ok")
  \/ \E d \in Dids : PartBody(d, "true")
  \/ \E d \in Dids : ScoreResponse(d, "ok")
  \/ \E d \in Dids : ScoreBody(d, 80)
  \/ \E d \in Dids : PutDone(d, TRUE)
  \/ Aggregate
  \/ PutAvg(TRUE)
  \/ PutLast(TRUE)

QuerySpec == Init2 /\ [][QueryNext]_vars

\* the dids of the individualScores of the response
ListedDids == {resp.individualScores[i].did : i \in 1..Len(resp.individualScores)}

\* C15: in a response of /accessibilityScore/all no entry of
\* individualScores carries a reserved key, no did appears twice, every
\* entry belongs to a key that has a value, and every key other than the
\* reserved ones that had a value when the request arrived has an entry.
C15_AllExcludesReserved ==
  (req.path = "all" /\ req.at = "done") =>
     /\ ListedDids \cap ReservedKeys = {}
     /\ Cardinality(ListedDids) = Len(resp.individualScores)
     /\ \A k \in ListedDids : KvGet(kv, k) # NULL
     /\ \A k \in DOMAIN req.kv0 \ ReservedKeys : req.kv0[k] # NULL => k \in ListedDids

\* a response of /all over a store that holds a score and both reserved keys
C15_Witness ==
  /\ req.path = "all" /\ req.at = "done" /\ resp.status = 200
  /\ ListedDids # {}
  /\ req.kv0["pdsAccessibilityScore"] # NULL /\ req.kv0["lastUpdated"] # NULL
  /\ resp.pdsAccessibilityScore # NULL /\ resp.lastUpdated # NULL

\* what a finished read of /accessibilityScore answered, against the store
\* when the request arrived (kv0) and the store now: no key is ever removed,
\* so a key absent now was absent at the read
ScoreAnswer ==
  (req.path = "score" /\ req.at = "done") =>
     /\ resp.status \in {200, 404}
     /\ KvGet(kv, ScoreKey(req.did)) = NULL => resp.status = 404
     /\ resp.status = 404 => KvGet(req.kv0, ScoreKey(req.did)) = NULL
     /\ resp.status = 200 =>
          /\ KvGet(kv, "lastUpdated") = NULL => resp.lastUpdated = UnknownStr
          /\ resp.lastUpdated = UnknownStr => KvGet(req.kv0, "lastUpdated") = NULL
          /\ resp.lastUpdated # NULL

\* C16: a read of one score or of the aggregate answers 404 when the key it
\* reads is absent, answers "Unknown" for an absent lastUpdated, and no
\* step of the fetch handler changes the store.
C16_ReadNotFoundUnknown ==
  [][(req' # req \/ resp' # resp) => (kv' = kv /\ ScoreAnswer')]_vars

\* a did that the store does not hold was asked for and answered with 404
C16_Witness ==
  /\ req.path = "score" /\ req.at = "done" /\ req.did \in Dids
  /\ resp.status = 404

\* a score was answered while lastUpdated was absent
UnknownAnswered ==
  /\ req.path = "score" /\ req.at = "done" /\ resp.status = 200
  /\ resp.lastUpdated = UnknownStr

\* ---------------------------------------------------------------------------
\* What a run writes (Spec)

\* validateParticipation(WithLimit) returned true for d: a 2xx answer with
\* the preference unset or true, or a non-2xx answer
ResolvedParticipates(d) ==
  partRes[d] \in {"undefined", "true", "notfound", "errOther", "errMalformed"}

ListedActive(d) == \E i \in DOMAIN repos : repos[i].did = d /\ repos[i].active

PartCompleted(d) == partRes[d] # "none"

SemFairSpec ==
  /\ SemSpec
  /\ \A t \in Tasks : WF_vars(TaskResume(t))
  /\ \A t \in Tasks : WF_vars(\E ok \in BOOLEAN : TaskSettle(t, ok))

\* C19: if every admitted task settles, every caller that run() has queued
\* is admitted in the end: its fn() is called.
C19_EventuallyAdmitted ==
  \A t \in Tasks : (task[t] \in {"queued", "woken"}) ~> Admitted(t)

\* more callers than slots have arrived, and everyone that had to queue has
\* been admitted
C19_Witness ==
  /\ Len(order) > limit
  /\ waited # {}
  /\ \A t \in waited : Admitted(t)

\* ---------------------------------------------------------------------------
\* Termination of a run and the limiter at its end

\* every pending call of the run settles: the listing, the lookups, the
\* score fetches, the store calls and the webhook
FairSpec == Spec /\ WF_vars(Next)

Terminal == pc \in {"Completed", "Aborted"}

\* the limiter of the handler of part_000: the counter is the number of
\* fetches sent through it and not settled, and is never negative
CounterExact == variant = "limited" => active >= 0 /\ active = InFlight

\* no fetch is running through the limiter and nobody waits for a slot
Quiescent == active = 0 /\ queue = <<>> /\ InFlight = 0 /\ ~WakePending

NoStall == (pc \notin {"idle", "Completed", "Aborted"}) => ENABLED FanNext

\* and at Completed every call that queued has been sent and has settled
CompletedQuiescent == CounterExact /\ (pc = "Completed" => Quiescent)

\* ---------------------------------------------------------------------------
\* Order of the last writes of a run, and what a reader sees of them

\* the run has written lastUpdated only after its average, when it puts one;
\* the webhook is called at most once and only after lastUpdated is written;
\* a Completed run has called it once
WriteOrder ==
  /\ "lastUpdated" \in written =>
        (PutsAverage(avgStr) => "pdsAccessibilityScore" \in written)
  /\ notifCalls <= 1
  /\ notifCalls = 1 => "lastUpdated" \in written
  /\ pc = "Completed" => notifCalls = 1 /\ "lastUpdated" \in written

\* a request for the aggregate has been answered with the lastUpdated that
\* the run wrote, and the run wrote an average
SawNewLastUpdated ==
  /\ req.path = "score" /\ req.did = "" /\ req.at = "done" /\ resp.status = 200
  /\ "lastUpdated" \in written /\ resp.lastUpdated = IsoStr(clock)
  /\ "pdsAccessibilityScore" \in written

\* C21: a run writes its average before lastUpdated and calls the webhook
\* once, after the lastUpdated write; and a reader of the aggregate that is
\* answered with the run's lastUpdated is answered with the run's average.
C21_ReaderSeesAggregate ==
  /\ WriteOrder
  /\ SawNewLastUpdated => resp.score = ToNumber(avgStr)

\* ---------------------------------------------------------------------------
\* The keys a run touches

\* C22: a run writes no key other than the dids of its listing and the two
\* reserved keys, and every other key holds what it held when the run was
\* triggered: the entry of a repo that is no longer listed stays.
C22_WritesListedOrReserved ==
  /\ written \subseteq Listed \cup ReservedKeys
  /\ \A k \in DOMAIN kv \ (Listed \cup ReservedKeys) : kv[k] = kvStart[k]

\* a run has completed, has put a listed did and both reserved keys, and the
\* store still holds the older score of a did that is not in the listing
C22_Witness ==
  /\ pc = "Completed"
  /\ written \cap Listed # {}
  /\ ReservedKeys \subseteq written
  /\ \E k \in Dids \ Listed : kv[k] = IntStr(PriorScore) /\ kvStart[k] = kv[k]

====
